---- MODULE Spec2Model ----
(***************************************************************************)
(* Multi-Level Feedback Queue scheduler simulation                         *)
(* (src/note6/mlfq/mlfq_simulation.c).                                     *)
(*                                                                         *)
(* The state is the global state of the program (queues, current_time,     *)
(* last_boost_time), the caller's process array, the locals of             *)
(* run_mlfq_simulation that live across statements (completed,             *)
(* current_proc) and the position inside the scheduler loop (pc).          *)
(* A process pointer is modelled by the 1-based index of the process in    *)
(* the array; NULL is index 0.                                             *)
(***************************************************************************)
EXTENDS Integers, Sequences, FiniteSets, TLC

\* ---- program constants ----
MAX_PROCESSES == 10
NUM_QUEUES == 3
boost_interval == 50
io_time == 10
NULL == 0

\* ---- bounds of the explored inputs ----
MaxN == 2
MaxArrival == 2
BurstTimes == {2, 5, 24, 45}

VARIABLES
    processes,        \* Process processes[]: index -> record
    n,                \* number of processes handed to run_mlfq_simulation
    queues,           \* queues[q].processes[0..count-1] as a sequence, q in 0..NUM_QUEUES-1
    current_time,
    last_boost_time,
    completed,
    current_proc,     \* result of get_next_process (NULL = 0)
    pc                \* "loop", "get", "scan", "run", "idle", "done", "error"

vars == <<processes, n, queues, current_time, last_boost_time, completed, current_proc, pc>>

\* queues[i].time_quantum as set by init_queues: (1 << i) * 10
time_quantum(q) == (2 ^ q) * 10

\* A process record as the caller builds it (main's initializer layout) and as
\* the set-up loop of run_mlfq_simulation leaves it.
NewProcess(id, arrival, burst, io) ==
    [ id |-> id,
      arrival_time |-> arrival,
      burst_time |-> burst,
      remaining_time |-> burst,
      current_queue |-> 0,
      time_in_current_quantum |-> 0,
      completion_time |-> 0,
      turnaround_time |-> 0,
      waiting_time |-> 0,
      first_run_time |-> -1,
      is_io_bound |-> io ]

\* The hard-coded process list of main.
MainProcesses ==
    <<NewProcess(1, 0, 100, FALSE),
      NewProcess(2, 0, 5, TRUE),
      NewProcess(3, 0, 5, TRUE),
      NewProcess(4, 10, 80, FALSE),
      NewProcess(5, 20, 15, TRUE)>>

\* The literal end-to-end scenarios: one I/O-bound (burst 5) and one CPU-bound
\* (burst 100) process arriving at 0, in either list order; three CPU-bound
\* processes arriving at 0 with bursts 24, 3, 3.
ScenarioProcesses ==
    { <<NewProcess(1, 0, 5, TRUE), NewProcess(2, 0, 100, FALSE)>>,
      <<NewProcess(1, 0, 100, FALSE), NewProcess(2, 0, 5, TRUE)>>,
      <<NewProcess(1, 0, 24, FALSE), NewProcess(2, 0, 3, FALSE), NewProcess(3, 0, 3, FALSE)>> }

\* ---- queue ladder ----

\* add_process_to_queue storing the process in slot 0 instead of slot count
AddProcessToQueueAtHead(st, i, level) ==
    IF Len(st.q[level]) < MAX_PROCESSES
    THEN [ q |-> [st.q EXCEPT ![level] = <<i>> \o @],
           p |-> [st.p EXCEPT ![i].current_queue = level,
                              ![i].time_in_current_quantum = 0] ]
    ELSE st

\* add_process_to_queue without "p->current_queue = queue_level": the
\* record keeps the level it had before
AddProcessToQueueKeepingLevel(st, i, level) ==
    IF Len(st.q[level]) < MAX_PROCESSES
    THEN [ q |-> [st.q EXCEPT ![level] = Append(@, i)],
           p |-> [st.p EXCEPT ![i].time_in_current_quantum = 0] ]
    ELSE st

\* add_process_to_queue with the capacity test one short: count < MAX_PROCESSES - 1
AddProcessToQueueOneShort(st, i, level) ==
    IF Len(st.q[level]) < MAX_PROCESSES - 1
    THEN [ q |-> [st.q EXCEPT ![level] = Append(@, i)],
           p |-> [st.p EXCEPT ![i].current_queue = level,
                              ![i].time_in_current_quantum = 0] ]
    ELSE st

\* add_process_to_queue(p, queue_level) on the pair st = [q |-> queues, p |-> processes]
AddProcessToQueue(st, i, level) ==
    IF Len(st.q[level]) < MAX_PROCESSES
    THEN [ q |-> [st.q EXCEPT ![level] = Append(@, i)],
           p |-> [st.p EXCEPT ![i].current_queue = level,
                              ![i].time_in_current_quantum = 0] ]
    ELSE st

\* the inner boost loop walking the level from its last slot to its first
RECURSIVE BoostLevelReversed(_, _, _)
BoostLevelReversed(st, q, i) ==
    IF i > Len(st.q[q]) THEN st
    ELSE BoostLevelReversed(
             AddProcessToQueue(st, st.q[q][Len(st.q[q]) - i + 1], 0), q, i + 1)

\* the inner boost loop storing the pointer in level 0 itself, without going
\* through add_process_to_queue: current_queue and the quantum usage are kept
RECURSIVE BoostLevelRawCopy(_, _, _)
BoostLevelRawCopy(st, q, i) ==
    IF i > Len(st.q[q]) THEN st
    ELSE BoostLevelRawCopy([st EXCEPT !.q[0] = Append(@, st.q[q][i])], q, i + 1)

\* inner loop of the boost: add queues[q].processes[i..count-1] to level 0
RECURSIVE BoostLevel(_, _, _)
BoostLevel(st, q, i) ==
    IF i > Len(st.q[q]) THEN st
    ELSE BoostLevel(AddProcessToQueue(st, st.q[q][i], 0), q, i + 1)

\* the boost without "queues[q].count = 0": the boosted levels keep their entries
RECURSIVE BoostFromKeepingCount(_, _)
BoostFromKeepingCount(st, q) ==
    IF q >= NUM_QUEUES THEN st
    ELSE BoostFromKeepingCount(BoostLevel(st, q, 1), q + 1)

\* the boost with the outer loop stopping one level early (q < NUM_QUEUES - 1)
RECURSIVE BoostFromSkippingBottom(_, _)
BoostFromSkippingBottom(st, q) ==
    IF q >= NUM_QUEUES - 1 THEN st
    ELSE LET moved == BoostLevel(st, q, 1)
         IN  BoostFromSkippingBottom([moved EXCEPT !.q[q] = <<>>], q + 1)

\* the boost resetting each level's count without moving its processes first
RECURSIVE BoostFromDropping(_, _)
BoostFromDropping(st, q) ==
    IF q >= NUM_QUEUES THEN st
    ELSE BoostFromDropping([st EXCEPT !.q[q] = <<>>], q + 1)

\* outer loop of the boost, levels q..NUM_QUEUES-1; each level's count is reset to 0
RECURSIVE BoostFrom(_, _)
BoostFrom(st, q) ==
    IF q >= NUM_QUEUES THEN st
    ELSE LET moved == BoostLevel(st, q, 1)
         IN  BoostFrom([moved EXCEPT !.q[q] = <<>>], q + 1)

\* the scan started from the lowest-priority end: index of the last non-empty level
RECURSIVE LowestNonEmpty(_, _)
LowestNonEmpty(qs, q) ==
    IF q >= NUM_QUEUES THEN NUM_QUEUES
    ELSE LET below == LowestNonEmpty(qs, q + 1)
         IN  IF below < NUM_QUEUES THEN below
             ELSE IF Len(qs[q]) > 0 THEN q
             ELSE NUM_QUEUES

\* index of the first non-empty level, NUM_QUEUES if there is none
RECURSIVE HighestNonEmpty(_, _)
HighestNonEmpty(qs, q) ==
    IF q >= NUM_QUEUES THEN NUM_QUEUES
    ELSE IF Len(qs[q]) > 0 THEN q
    ELSE HighestNonEmpty(qs, q + 1)

\* ---- scheduler loop helpers ----

\* Variant of the arrival check that admits every process whose arrival
\* time is not after the clock (<= instead of ==).
RECURSIVE ArrivalsUpToNow(_, _, _, _)
ArrivalsUpToNow(st, i, k, t) ==
    IF i > k THEN st
    ELSE IF st.p[i].arrival_time <= t
         THEN ArrivalsUpToNow(AddProcessToQueue(st, i, 0), i + 1, k, t)
         ELSE ArrivalsUpToNow(st, i + 1, k, t)

\* arrival check: for (i = 0; i < n; i++) if (arrival_time == current_time) add at level 0
RECURSIVE Arrivals(_, _, _, _)
Arrivals(st, i, k, t) ==
    IF i > k THEN st
    ELSE IF st.p[i].arrival_time = t
         THEN Arrivals(AddProcessToQueue(st, i, 0), i + 1, k, t)
         ELSE Arrivals(st, i + 1, k, t)

\* run_time without the clamp of an I/O-bound dispatch to the remaining burst
RunTimeUnclamped(p, time_slice) ==
    IF p.is_io_bound
    THEN time_slice \div 5
    ELSE IF p.remaining_time < time_slice - p.time_in_current_quantum
         THEN p.remaining_time
         ELSE time_slice - p.time_in_current_quantum

\* run_time with an I/O-bound process using the whole quantum like a CPU-bound one
RunTimeIoFullQuantum(p, time_slice) ==
    IF p.remaining_time < time_slice - p.time_in_current_quantum
    THEN p.remaining_time
    ELSE time_slice - p.time_in_current_quantum

\* run_time with a CPU-bound process running to completion, ignoring the quantum
RunTimeToCompletion(p, time_slice) ==
    IF p.is_io_bound
    THEN IF time_slice \div 5 > p.remaining_time
         THEN p.remaining_time
         ELSE time_slice \div 5
    ELSE p.remaining_time

\* Variant of the run-time rule that gives every process, I/O-bound or
\* not, a fifth of the quantum.
RunTimeFifthForAll(p, time_slice) ==
    IF time_slice \div 5 > p.remaining_time
    THEN p.remaining_time
    ELSE time_slice \div 5

\* Variant of the run-time rule in which a CPU-bound process always runs
\* for what is left of its quantum, even past its remaining time.
RunTimeCpuUnclamped(p, time_slice) ==
    IF p.is_io_bound
    THEN IF time_slice \div 5 > p.remaining_time
         THEN p.remaining_time
         ELSE time_slice \div 5
    ELSE time_slice - p.time_in_current_quantum

\* Variant of the run-time rule in which an I/O-bound process runs for a
\* fifth of its remaining time instead of a fifth of the quantum.
RunTimeIoFifthOfRemaining(p, time_slice) ==
    IF p.is_io_bound
    THEN p.remaining_time \div 5
    ELSE IF p.remaining_time < time_slice - p.time_in_current_quantum
         THEN p.remaining_time
         ELSE time_slice - p.time_in_current_quantum

\* Variant of the run-time rule with the is_io_bound test inverted: the
\* CPU-bound process gets a fifth of the quantum, the I/O-bound one all of it.
RunTimeInverted(p, time_slice) ==
    IF ~p.is_io_bound
    THEN IF time_slice \div 5 > p.remaining_time
         THEN p.remaining_time
         ELSE time_slice \div 5
    ELSE IF p.remaining_time < time_slice - p.time_in_current_quantum
         THEN p.remaining_time
         ELSE time_slice - p.time_in_current_quantum

\* run_time of a dispatch of process record p with quantum time_slice
RunTime(p, time_slice) ==
    IF p.is_io_bound
    THEN IF time_slice \div 5 > p.remaining_time
         THEN p.remaining_time
         ELSE time_slice \div 5
    ELSE IF p.remaining_time < time_slice - p.time_in_current_quantum
         THEN p.remaining_time
         ELSE time_slice - p.time_in_current_quantum

\* next_queue without the demotion: the process is put back at its own level
NextQueueSameLevel(q) == q

\* next_queue of a demotion
NextQueue(q) == IF q < NUM_QUEUES - 1 THEN q + 1 ELSE q

\* the idle search without the "arrival_time > current_time" test
RECURSIVE NextArrivalAnyTime(_, _, _, _, _)
NextArrivalAnyTime(ps, i, k, t, next_arrival) ==
    IF i > k THEN next_arrival
    ELSE IF ps[i].remaining_time > 0
              /\ (next_arrival = -1 \/ ps[i].arrival_time < next_arrival)
         THEN NextArrivalAnyTime(ps, i + 1, k, t, ps[i].arrival_time)
         ELSE NextArrivalAnyTime(ps, i + 1, k, t, next_arrival)

\* Variant of the next-arrival scan that keeps the latest future arrival
\* instead of the earliest one.
RECURSIVE NextArrivalLatest(_, _, _, _, _)
NextArrivalLatest(ps, i, k, t, next_arrival) ==
    IF i > k THEN next_arrival
    ELSE IF ps[i].remaining_time > 0 /\ ps[i].arrival_time > t
              /\ (next_arrival = -1 \/ ps[i].arrival_time > next_arrival)
         THEN NextArrivalLatest(ps, i + 1, k, t, ps[i].arrival_time)
         ELSE NextArrivalLatest(ps, i + 1, k, t, next_arrival)

\* Variant of the next-arrival scan that tests arrival_time != current_time
\* instead of arrival_time > current_time.
RECURSIVE NextArrivalNotEqual(_, _, _, _, _)
NextArrivalNotEqual(ps, i, k, t, next_arrival) ==
    IF i > k THEN next_arrival
    ELSE IF ps[i].remaining_time > 0 /\ ps[i].arrival_time # t
              /\ (next_arrival = -1 \/ ps[i].arrival_time < next_arrival)
         THEN NextArrivalNotEqual(ps, i + 1, k, t, ps[i].arrival_time)
         ELSE NextArrivalNotEqual(ps, i + 1, k, t, next_arrival)

\* idle branch: smallest arrival_time > t among unfinished processes i..k, -1 if none
RECURSIVE NextArrival(_, _, _, _, _)
NextArrival(ps, i, k, t, next_arrival) ==
    IF i > k THEN next_arrival
    ELSE IF ps[i].remaining_time > 0 /\ ps[i].arrival_time > t
              /\ (next_arrival = -1 \/ ps[i].arrival_time < next_arrival)
         THEN NextArrival(ps, i + 1, k, t, ps[i].arrival_time)
         ELSE NextArrival(ps, i + 1, k, t, next_arrival)

\* print_results: response_time of process i
response_time(i) == processes[i].first_run_time - processes[i].arrival_time

\* ---- initial state: after the set-up loop, before the first iteration ----

EmptyQueues == [q \in 0..(NUM_QUEUES - 1) |-> <<>>]

\* Process lists that fill the process table: MAX_PROCESSES processes that
\* all arrive at time 0, all CPU-bound, or I/O-bound and CPU-bound in turn.
FullLoadProcesses ==
    { [i \in 1..MAX_PROCESSES |-> NewProcess(i, 0, 45, FALSE)],
      [i \in 1..MAX_PROCESSES |-> NewProcess(i, 0, IF i % 2 = 1 THEN 5 ELSE 45, i % 2 = 1)] }

InitInput ==
    \/ \E k \in 1..MaxN :
         \E a \in [1..k -> 0..MaxArrival], b \in [1..k -> BurstTimes], io \in [1..k -> BOOLEAN] :
            /\ n = k
            /\ processes = [i \in 1..k |-> NewProcess(i, a[i], b[i], io[i])]
    \/ /\ n = Len(MainProcesses)
       /\ processes = MainProcesses
    \/ \E s \in ScenarioProcesses :
          /\ n = Len(s)
          /\ processes = s
    \/ \E s \in FullLoadProcesses :
          /\ n = Len(s)
          /\ processes = s

Init ==
    /\ InitInput
    /\ queues = EmptyQueues
    /\ current_time = 0
    /\ last_boost_time = 0
    /\ completed = 0
    /\ current_proc = NULL
    /\ pc = "loop"

\* ---- actions ----

\* while (completed < n) and the arrival check at the top of the body
LoopHead ==
    /\ pc = "loop"
    /\ IF completed < n
       THEN LET st == Arrivals([q |-> queues, p |-> processes], 1, n, current_time)
            IN  /\ queues' = st.q
                /\ processes' = st.p
                /\ pc' = "get"
       ELSE /\ pc' = "done"
            /\ UNCHANGED <<queues, processes>>
    /\ UNCHANGED <<n, current_time, last_boost_time, completed, current_proc>>

\* Variant of the boost step without the test of the elapsed time: every
\* call of get_next_process boosts.
PriorityBoostAlways ==
    /\ pc = "get"
    /\ LET st == BoostFrom([q |-> queues, p |-> processes], 1)
       IN  /\ queues' = st.q
           /\ processes' = st.p
           /\ last_boost_time' = current_time
    /\ pc' = "scan"
    /\ UNCHANGED <<n, current_time, completed, current_proc>>

\* get_next_process, first half: priority boost if needed (Rule 5)
PriorityBoost ==
    /\ pc = "get"
    /\ IF current_time - last_boost_time >= boost_interval
       THEN LET st == BoostFrom([q |-> queues, p |-> processes], 1)
            IN  /\ queues' = st.q
                /\ processes' = st.p
                /\ last_boost_time' = current_time
       ELSE UNCHANGED <<queues, processes, last_boost_time>>
    /\ pc' = "scan"
    /\ UNCHANGED <<n, current_time, completed, current_proc>>

\* Variant of the selection that returns the head of the level without
\* shifting the level's entries: the selected process stays queued.
FindHighestKeepingHead ==
    /\ pc = "scan"
    /\ LET q == HighestNonEmpty(queues, 0)
       IN  IF q < NUM_QUEUES
           THEN /\ current_proc' = Head(queues[q])
                /\ queues' = queues
                /\ pc' = "run"
           ELSE /\ current_proc' = NULL
                /\ queues' = queues
                /\ pc' = "idle"
    /\ UNCHANGED <<processes, n, current_time, last_boost_time, completed>>

\* get_next_process, second half: take the head of the highest non-empty level (Rule 1, 2)
FindHighest ==
    /\ pc = "scan"
    /\ LET q == HighestNonEmpty(queues, 0)
       IN  IF q < NUM_QUEUES
           THEN /\ current_proc' = Head(queues[q])
                /\ queues' = [queues EXCEPT ![q] = Tail(@)]
                /\ pc' = "run"
           ELSE /\ current_proc' = NULL
                /\ queues' = queues
                /\ pc' = "idle"
    /\ UNCHANGED <<processes, n, current_time, last_boost_time, completed>>

\* Variant of the dispatch step that tests the exhausted quantum before
\* the completion of the process.
RunProcessDemotionFirst ==
    /\ pc = "run"
    /\ LET i == current_proc
           first == IF processes[i].first_run_time = -1
                    THEN current_time ELSE processes[i].first_run_time
           q == processes[i].current_queue
           time_slice == time_quantum(q)
           run_time == RunTime(processes[i], time_slice)
           now == current_time + run_time
           ran == [processes EXCEPT
                     ![i].first_run_time = first,
                     ![i].remaining_time = @ - run_time,
                     ![i].time_in_current_quantum = @ + run_time]
       IN  /\ current_time' = now
           /\ IF ~ran[i].is_io_bound /\ ran[i].time_in_current_quantum >= time_slice
              THEN LET reset == [ran EXCEPT ![i].time_in_current_quantum = 0]
                       st == AddProcessToQueue([q |-> queues, p |-> reset], i, NextQueue(q))
                   IN  /\ queues' = st.q
                       /\ processes' = st.p
                       /\ completed' = completed
              ELSE IF ran[i].remaining_time = 0
              THEN /\ processes' = [ran EXCEPT
                         ![i].completion_time = now,
                         ![i].turnaround_time = now - ran[i].arrival_time,
                         ![i].waiting_time = (now - ran[i].arrival_time) - ran[i].burst_time]
                   /\ completed' = completed + 1
                   /\ queues' = queues
              ELSE IF ran[i].is_io_bound /\ run_time < time_slice
              THEN /\ processes' = [ran EXCEPT
                         ![i].time_in_current_quantum = 0,
                         ![i].arrival_time = now + io_time]
                   /\ UNCHANGED <<completed, queues>>
              ELSE LET st == AddProcessToQueue([q |-> queues, p |-> ran], i, q)
                   IN  /\ queues' = st.q
                       /\ processes' = st.p
                       /\ completed' = completed
    /\ pc' = "loop"
    /\ UNCHANGED <<n, last_boost_time, current_proc>>

\* Variant of the dispatch step that stamps first_run_time on every
\* dispatch, without the test for -1.
RunProcessAlwaysStamping ==
    /\ pc = "run"
    /\ LET i == current_proc
           first == current_time
           q == processes[i].current_queue
           time_slice == time_quantum(q)
           run_time == RunTime(processes[i], time_slice)
           now == current_time + run_time
           ran == [processes EXCEPT
                     ![i].first_run_time = first,
                     ![i].remaining_time = @ - run_time,
                     ![i].time_in_current_quantum = @ + run_time]
       IN  /\ current_time' = now
           /\ IF ran[i].remaining_time = 0
              THEN /\ processes' = [ran EXCEPT
                         ![i].completion_time = now,
                         ![i].turnaround_time = now - ran[i].arrival_time,
                         ![i].waiting_time = (now - ran[i].arrival_time) - ran[i].burst_time]
                   /\ completed' = completed + 1
                   /\ queues' = queues
              ELSE IF ran[i].is_io_bound /\ run_time < time_slice
              THEN /\ processes' = [ran EXCEPT
                         ![i].time_in_current_quantum = 0,
                         ![i].arrival_time = now + io_time]
                   /\ UNCHANGED <<completed, queues>>
              ELSE IF ran[i].time_in_current_quantum >= time_slice
              THEN LET reset == [ran EXCEPT ![i].time_in_current_quantum = 0]
                       st == AddProcessToQueue([q |-> queues, p |-> reset], i, NextQueue(q))
                   IN  /\ queues' = st.q
                       /\ processes' = st.p
                       /\ completed' = completed
              ELSE LET st == AddProcessToQueue([q |-> queues, p |-> ran], i, q)
                   IN  /\ queues' = st.q
                       /\ processes' = st.p
                       /\ completed' = completed
    /\ pc' = "loop"
    /\ UNCHANGED <<n, last_boost_time, current_proc>>

\* Variant of the dispatch step that advances the clock by the whole
\* quantum instead of by run_time.
RunProcessChargingQuantum ==
    /\ pc = "run"
    /\ LET i == current_proc
           first == IF processes[i].first_run_time = -1
                    THEN current_time ELSE processes[i].first_run_time
           q == processes[i].current_queue
           time_slice == time_quantum(q)
           run_time == RunTime(processes[i], time_slice)
           now == current_time + time_slice
           ran == [processes EXCEPT
                     ![i].first_run_time = first,
                     ![i].remaining_time = @ - run_time,
                     ![i].time_in_current_quantum = @ + run_time]
       IN  /\ current_time' = now
           /\ IF ran[i].remaining_time = 0
              THEN /\ processes' = [ran EXCEPT
                         ![i].completion_time = now,
                         ![i].turnaround_time = now - ran[i].arrival_time,
                         ![i].waiting_time = (now - ran[i].arrival_time) - ran[i].burst_time]
                   /\ completed' = completed + 1
                   /\ queues' = queues
              ELSE IF ran[i].is_io_bound /\ run_time < time_slice
              THEN /\ processes' = [ran EXCEPT
                         ![i].time_in_current_quantum = 0,
                         ![i].arrival_time = now + io_time]
                   /\ UNCHANGED <<completed, queues>>
              ELSE IF ran[i].time_in_current_quantum >= time_slice
              THEN LET reset == [ran EXCEPT ![i].time_in_current_quantum = 0]
                       st == AddProcessToQueue([q |-> queues, p |-> reset], i, NextQueue(q))
                   IN  /\ queues' = st.q
                       /\ processes' = st.p
                       /\ completed' = completed
              ELSE LET st == AddProcessToQueue([q |-> queues, p |-> ran], i, q)
                   IN  /\ queues' = st.q
                       /\ processes' = st.p
                       /\ completed' = completed
    /\ pc' = "loop"
    /\ UNCHANGED <<n, last_boost_time, current_proc>>

\* if (current_proc != NULL) { ... }: the dispatch and its outcome
RunProcess ==
    /\ pc = "run"
    /\ LET i == current_proc
           first == IF processes[i].first_run_time = -1
                    THEN current_time ELSE processes[i].first_run_time
           q == processes[i].current_queue
           time_slice == time_quantum(q)
           run_time == RunTime(processes[i], time_slice)
           now == current_time + run_time
           ran == [processes EXCEPT
                     ![i].first_run_time = first,
                     ![i].remaining_time = @ - run_time,
                     ![i].time_in_current_quantum = @ + run_time]
       IN  /\ current_time' = now
           /\ IF ran[i].remaining_time = 0
              THEN /\ processes' = [ran EXCEPT
                         ![i].completion_time = now,
                         ![i].turnaround_time = now - ran[i].arrival_time,
                         ![i].waiting_time = (now - ran[i].arrival_time) - ran[i].burst_time]
                   /\ completed' = completed + 1
                   /\ queues' = queues
              ELSE IF ran[i].is_io_bound /\ run_time < time_slice
              THEN /\ processes' = [ran EXCEPT
                         ![i].time_in_current_quantum = 0,
                         ![i].arrival_time = now + io_time]
                   /\ UNCHANGED <<completed, queues>>
              ELSE IF ran[i].time_in_current_quantum >= time_slice
              THEN LET reset == [ran EXCEPT ![i].time_in_current_quantum = 0]
                       st == AddProcessToQueue([q |-> queues, p |-> reset], i, NextQueue(q))
                   IN  /\ queues' = st.q
                       /\ processes' = st.p
                       /\ completed' = completed
              ELSE LET st == AddProcessToQueue([q |-> queues, p |-> ran], i, q)
                   IN  /\ queues' = st.q
                       /\ processes' = st.p
                       /\ completed' = completed
    /\ pc' = "loop"
    /\ UNCHANGED <<n, last_boost_time, current_proc>>

\* Variant of the idle branch that finds the next arrival but leaves the
\* clock where it is.
CpuIdleNoSkip ==
    /\ pc = "idle"
    /\ LET next_arrival == NextArrival(processes, 1, n, current_time, -1)
       IN  IF next_arrival # -1
           THEN /\ current_time' = current_time
                /\ pc' = "loop"
           ELSE /\ current_time' = current_time
                /\ pc' = "error"
    /\ UNCHANGED <<processes, n, queues, last_boost_time, completed, current_proc>>

\* else { ... }: CPU idle, skip to the next arrival or give up
CpuIdle ==
    /\ pc = "idle"
    /\ LET next_arrival == NextArrival(processes, 1, n, current_time, -1)
       IN  IF next_arrival # -1
           THEN /\ current_time' = next_arrival
                /\ pc' = "loop"
           ELSE /\ current_time' = current_time
                /\ pc' = "error"
    /\ UNCHANGED <<processes, n, queues, last_boost_time, completed, current_proc>>

Next == LoopHead \/ PriorityBoost \/ FindHighest \/ RunProcess \/ CpuIdle

Spec == Init /\ [][Next]_vars

\* ---- process run-states, read off the program state ----

\* number of slots of the level FIFOs that hold process i
RECURSIVE Occurrences(_, _)
Occurrences(i, q) ==
    IF q >= NUM_QUEUES THEN 0
    ELSE Cardinality({k \in 1..Len(queues[q]) : queues[q][k] = i}) + Occurrences(i, q + 1)

Queued(i) == Occurrences(i, 0) > 0
Terminal(i) == processes[i].remaining_time = 0
Running(i) == pc = "run" /\ current_proc = i
\* off the ladder after an I/O yield: has run, is unfinished, re-arrives later
WaitingOnIo(i) ==
    /\ processes[i].is_io_bound
    /\ processes[i].first_run_time # -1
    /\ processes[i].remaining_time > 0
    /\ processes[i].arrival_time > current_time
LoopEnded == pc \in {"done", "error"}

\* The run was started on main's hard-coded list. burst_time, is_io_bound and
\* the arrival_time of a CPU-bound process never change during a run, and
\* main's list is the only explored input with five processes.
ReferenceInput ==
    /\ n = 5
    /\ \A i \in 1..5 :
          /\ processes[i].id = MainProcesses[i].id
          /\ processes[i].burst_time = MainProcesses[i].burst_time
          /\ processes[i].is_io_bound = MainProcesses[i].is_io_bound
          /\ (~processes[i].is_io_bound =>
                processes[i].arrival_time = MainProcesses[i].arrival_time)

\* ---- claims ----

\* C1: the scheduler loop ends only when the count of terminal processes
\* equals the process count, i.e. when it stops every process has remaining
\* burst 0.
LoopEndsOnlyWhenAllTerminal ==
    LoopEnded => (completed = n /\ \A i \in 1..n : processes[i].remaining_time = 0)

\* C2: at every dispatch decision (after the arrival check) every unfinished
\* process whose arrival time is <= the clock is on the ladder; no arrival is
\* skipped when a dispatch makes the clock jump past the arrival time.
ArrivedProcessIsEnqueued ==
    pc = "get" =>
        \A i \in 1..n :
            (processes[i].remaining_time > 0 /\ processes[i].arrival_time <= current_time)
                => Queued(i)

\* C3: on main's hard-coded input the run never reaches the branch
\* "Error: No process to run but not all completed" and all five processes
\* complete.
ReferenceRunCompletes ==
    ReferenceInput =>
        /\ pc # "error"
        /\ (LoopEnded => \A i \in 1..n : Terminal(i))

\* C4: each process appears at most once across all level FIFOs, and in none
\* while it is running, terminal, or off the ladder after an I/O yield.
AtMostOnceOnLadder ==
    \A i \in 1..n :
        /\ Occurrences(i, 0) <= 1
        /\ (Running(i) \/ Terminal(i) \/ WaitingOnIo(i)) => Occurrences(i, 0) = 0

\* C4 witness: one process waits at a demoted level while another is off the
\* ladder after an I/O yield.
AtMostOnceOnLadderWitness ==
    \E i, j \in 1..n :
        /\ WaitingOnIo(i)
        /\ Queued(j)
        /\ processes[j].current_queue > 0

\* C5: 0 <= remaining_time <= burst_time always, and remaining_time never
\* increases from one step to the next.
RemainingTimeBoundedAndNonIncreasing ==
    /\ [](\A i \in 1..n :
            /\ 0 <= processes[i].remaining_time
            /\ processes[i].remaining_time <= processes[i].burst_time)
    /\ [][\A i \in 1..n :
            processes'[i].remaining_time <= processes[i].remaining_time]_vars

\* C5 witness: an I/O-bound process whose last dispatch was cut to the burst
\* that was left (less than a fifth of the quantum), and a process part-way
\* through its burst.
RemainingTimeWitness ==
    /\ \E i \in 1..n :
          /\ processes[i].is_io_bound
          /\ Terminal(i)
          /\ processes[i].burst_time % (time_quantum(0) \div 5) # 0
    /\ \E j \in 1..n :
          /\ 0 < processes[j].remaining_time
          /\ processes[j].remaining_time < processes[j].burst_time

\* C6: for every terminal process the response time print_results reports,
\* first_run_time - arrival_time, is >= 0, also for I/O-bound processes that
\* yielded.
ResponseTimeNonNegative ==
    LoopEnded => \A i \in 1..n : Terminal(i) => response_time(i) >= 0

\* C7: for every terminal process turnaround_time = completion_time -
\* arrival_time, waiting_time = turnaround_time - burst_time, and both are
\* >= 0, also for I/O-bound processes whose arrival_time was advanced.
TurnaroundAndWaitingNonNegative ==
    \A i \in 1..n :
        Terminal(i) =>
            /\ processes[i].turnaround_time
                  = processes[i].completion_time - processes[i].arrival_time
            /\ processes[i].waiting_time
                  = processes[i].turnaround_time - processes[i].burst_time
            /\ processes[i].turnaround_time >= 0
            /\ processes[i].waiting_time >= 0

\* C8: for every terminal process completion_time >= arrival_time +
\* burst_time, with the arrival_time stored in the record.
CompletionAfterArrivalPlusBurst ==
    \A i \in 1..n :
        Terminal(i) =>
            processes[i].completion_time
                >= processes[i].arrival_time + processes[i].burst_time

\* C9: current_time never decreases: every step leaves
\* current_time' >= current_time.
ClockNeverDecreases == [][current_time' >= current_time]_vars

\* C9 witness: the clock has been advanced by a dispatch and then by an idle
\* skip.
ClockNeverDecreasesWitness ==
    /\ pc = "loop"
    /\ current_proc = NULL
    /\ current_time > 0
    /\ \E i \in 1..n : processes[i].first_run_time # -1

\* C10 (Rule 1): the process get_next_process returns is the head of a level
\* q whose higher-priority levels (index < q) are all empty at the moment of
\* selection, and it returns none only if all levels are empty.
HighestPriorityFirst ==
    [][pc = "scan" =>
         /\ current_proc' # NULL =>
               \E q \in 0..(NUM_QUEUES - 1) :
                  /\ Len(queues[q]) > 0
                  /\ current_proc' = Head(queues[q])
                  /\ queues' = [queues EXCEPT ![q] = Tail(@)]
                  /\ processes[current_proc'].current_queue = q
                  /\ \A k \in 0..(q - 1) : Len(queues[k]) = 0
         /\ current_proc' = NULL =>
               \A q \in 0..(NUM_QUEUES - 1) : Len(queues[q]) = 0]_vars

\* C10 witness: a process was dispatched from level 1 while level 2 still
\* held a process, levels above it being empty.
HighestPriorityFirstWitness ==
    /\ pc = "run"
    /\ processes[current_proc].current_queue = 1
    /\ Len(queues[0]) = 0
    /\ Len(queues[2]) > 0

\* the processes held by a FIFO
Range(f) == {f[k] : k \in 1..Len(f)}

\* C11 (Rule 2): within a level, processes leave in FIFO order. In every step
\* and for every level, the processes that stay in the level are a suffix of
\* its old contents (nothing leaves from behind a process that stays), they
\* keep their order and form a prefix of the new contents (every enqueue
\* appends at the tail), and a dequeue removes exactly the head.
FifoWithinLevel ==
    [][\A q \in 0..(NUM_QUEUES - 1) :
          LET old == queues[q]
              new == queues'[q]
              gone == Cardinality({k \in 1..Len(old) : old[k] \notin Range(new)})
          IN  /\ Len(new) >= Len(old) - gone
              /\ \A k \in 1..(Len(old) - gone) : new[k] = old[gone + k]
              /\ (pc = "scan" /\ new # old) => new = Tail(old)
              /\ pc \in {"loop", "run"} => gone = 0]_vars

\* C11 witness: the head of level 1 has been dispatched and the process that
\* was appended behind it is still waiting in level 1.
FifoWithinLevelWitness ==
    /\ pc = "run"
    /\ processes[current_proc].current_queue = 1
    /\ Len(queues[1]) > 0

\* C12 (Rule 4a): a CPU-bound process dispatched at level q that exhausts the
\* quantum of q without completing is appended to the tail of level
\* min(q+1, NUM_QUEUES-1), no other level changes, and its quantum-usage
\* counter is 0; at the lowest level it stays at the lowest level.
DemotionOnFullQuantum ==
    [][pc = "run" =>
         LET i == current_proc
             q == processes[i].current_queue
             used == processes[i].time_in_current_quantum
                        + (processes[i].remaining_time - processes'[i].remaining_time)
             target == IF q + 1 <= NUM_QUEUES - 1 THEN q + 1 ELSE NUM_QUEUES - 1
         IN  (/\ ~processes[i].is_io_bound
              /\ processes'[i].remaining_time > 0
              /\ used >= time_quantum(q))
                 => /\ queues' = [queues EXCEPT ![target] = Append(@, i)]
                    /\ processes'[i].current_queue = target
                    /\ processes'[i].time_in_current_quantum = 0]_vars

\* C12 witness: a CPU-bound process has used the quanta of levels 0, 1 and 2
\* in full before any boost, and is queued at the lowest level again.
DemotionOnFullQuantumWitness ==
    /\ pc = "loop"
    /\ last_boost_time = 0
    /\ \E i \in 1..n :
          /\ ~processes[i].is_io_bound
          /\ Queued(i)
          /\ processes[i].current_queue = NUM_QUEUES - 1
          /\ processes[i].burst_time - processes[i].remaining_time
                = time_quantum(0) + time_quantum(1) + time_quantum(2)

\* C13 (Rule 4b): an I/O-bound process is never demoted: its current_queue is
\* 0 in every reachable state, each of its dispatches runs min(remaining,
\* level-0 quantum / 5), and a yield leaves its level unchanged and its
\* quantum-usage counter at 0.
IoBoundNeverDemoted ==
    /\ [](\A i \in 1..n : processes[i].is_io_bound => processes[i].current_queue = 0)
    /\ [][(pc = "run" /\ processes[current_proc].is_io_bound) =>
            LET i == current_proc
                fifth == time_quantum(0) \div 5
                ran == processes[i].remaining_time - processes'[i].remaining_time
            IN  /\ ran = IF processes[i].remaining_time < fifth
                         THEN processes[i].remaining_time ELSE fifth
                /\ processes'[i].remaining_time > 0 =>
                      /\ processes'[i].current_queue = processes[i].current_queue
                      /\ processes'[i].time_in_current_quantum = 0]_vars

\* C13 witness: an I/O-bound process that has already yielded is dispatched
\* again.
IoBoundNeverDemotedWitness ==
    /\ pc = "run"
    /\ processes[current_proc].is_io_bound
    /\ processes[current_proc].remaining_time < processes[current_proc].burst_time

\* C14 (Rule 5, trigger): at a dispatch decision with current_time -
\* last_boost_time >= boost_interval, before the selection every process of a
\* level > 0 is moved to level 0, those levels are emptied and last_boost_time
\* becomes current_time; so no process is dispatched from a level > 0 at a
\* time t with t - last_boost_time >= boost_interval.
BoostTrigger ==
    /\ [][(pc = "get" /\ current_time - last_boost_time >= boost_interval) =>
            /\ \A q \in 1..(NUM_QUEUES - 1) :
                  /\ queues'[q] = <<>>
                  /\ \A i \in Range(queues[q]) :
                        /\ i \in Range(queues'[0])
                        /\ processes'[i].current_queue = 0
            /\ last_boost_time' = current_time]_vars
    /\ []((pc = "run" /\ processes[current_proc].current_queue > 0)
             => current_time - last_boost_time < boost_interval)

\* C14 witness: a boost has just fired and level 0 holds a CPU-bound process
\* that had run before, i.e. one that the boost brought up from a lower level.
BoostTriggerWitness ==
    /\ pc = "scan"
    /\ current_time > 0
    /\ last_boost_time = current_time
    /\ \E i \in Range(queues[0]) :
          /\ ~processes[i].is_io_bound
          /\ processes[i].first_run_time # -1

\* C15: a boost preserves order and membership: afterwards level 0 holds its
\* previous contents, then those of level 1 in order, then those of level 2 in
\* order, levels 1 and 2 are empty (so nothing is lost or duplicated), and
\* every moved process has current_queue = 0 and quantum usage 0.
BoostPreservesOrder ==
    [][(pc = "get" /\ current_time - last_boost_time >= boost_interval) =>
         /\ queues'[0] = queues[0] \o queues[1] \o queues[2]
         /\ queues'[1] = <<>>
         /\ queues'[2] = <<>>
         /\ \A i \in Range(queues[1]) \cup Range(queues[2]) :
               /\ processes'[i].current_queue = 0
               /\ processes'[i].time_in_current_quantum = 0]_vars

\* C15 witness: a boost has just moved at least two processes into level 0.
BoostPreservesOrderWitness ==
    /\ pc = "scan"
    /\ current_time > 0
    /\ last_boost_time = current_time
    /\ \E i, j \in Range(queues[0]) :
          /\ i # j
          /\ ~processes[i].is_io_bound /\ processes[i].first_run_time # -1
          /\ ~processes[j].is_io_bound /\ processes[j].first_run_time # -1

\* C16 (scenario 3): a CPU-bound process that sits at the bottom level when a
\* boost fires is at level 0 right after the boost, and its next dispatch
\* uses the level-0 quantum (10), not the quantum of the level it had been
\* demoted to. Stated as the chain: the boost puts it into level 0 with
\* current_queue 0; whatever waits in level 0 has current_queue 0 and quantum
\* usage 0; the selection takes the head of a non-empty level 0 without
\* touching its record; a CPU-bound dispatch at current_queue 0 runs
\* min(remaining, 10).
BoostedProcessRunsAtTopQuantum ==
    /\ [][/\ (pc = "get" /\ current_time - last_boost_time >= boost_interval) =>
               \A i \in Range(queues[NUM_QUEUES - 1]) :
                  ~processes[i].is_io_bound =>
                     /\ i \in Range(queues'[0])
                     /\ processes'[i].current_queue = 0
          /\ (pc = "scan" /\ Len(queues[0]) > 0) =>
               /\ current_proc' = Head(queues[0])
               /\ processes' = processes
          /\ (/\ pc = "run"
              /\ ~processes[current_proc].is_io_bound
              /\ processes[current_proc].current_queue = 0) =>
               LET rem == processes[current_proc].remaining_time
               IN  /\ rem - processes'[current_proc].remaining_time
                         = IF rem < 10 THEN rem ELSE 10
                   /\ current_time' - current_time
                         = IF rem < 10 THEN rem ELSE 10]_vars
    /\ [](\A i \in Range(queues[0]) :
             /\ processes[i].current_queue = 0
             /\ processes[i].time_in_current_quantum = 0)

\* C16 witness: right after the first boost a CPU-bound process that had used
\* the level-0 and level-1 quanta in full (so it sat at the bottom level) is
\* dispatched at level 0.
BoostedProcessRunsAtTopQuantumWitness ==
    /\ pc = "run"
    /\ last_boost_time = current_time
    /\ current_time > 0
    /\ current_time < 2 * boost_interval
    /\ ~processes[current_proc].is_io_bound
    /\ processes[current_proc].current_queue = 0
    /\ processes[current_proc].burst_time - processes[current_proc].remaining_time
          >= time_quantum(0) + time_quantum(1)

\* The program is sequential and runs without waiting on anything: whenever a
\* step of the scheduler loop is possible it is eventually taken.
\* The fair runs are explored on main's list, the scenario lists and the lists
\* of up to MaxN processes with a short or a long burst that arrive at time 0
\* or at time MaxArrival.
LiveBurstTimes == {5, 45}

LiveInput ==
    \/ \E k \in 1..MaxN :
         \E a \in [1..k -> {0, MaxArrival}], b \in [1..k -> LiveBurstTimes], io \in [1..k -> BOOLEAN] :
            /\ n = k
            /\ processes = [i \in 1..k |-> NewProcess(i, a[i], b[i], io[i])]
    \/ /\ n = Len(MainProcesses)
       /\ processes = MainProcesses
    \/ \E s \in ScenarioProcesses :
          /\ n = Len(s)
          /\ processes = s

LiveInit ==
    /\ LiveInput
    /\ queues = EmptyQueues
    /\ current_time = 0
    /\ last_boost_time = 0
    /\ completed = 0
    /\ current_proc = NULL
    /\ pc = "loop"

FairSpec == LiveInit /\ [][Next]_vars /\ WF_vars(Next)

\* C17 (starvation prevention): every CPU-bound process that is on the ladder
\* is eventually dispatched again and eventually terminal, whatever other
\* processes arrive or re-arrive at level 0.
StarvationPrevention ==
    \A i \in 1..MAX_PROCESSES :
        /\ (i <= n /\ ~processes[i].is_io_bound /\ Queued(i)) ~> (i <= n /\ Running(i))
        /\ (i <= n /\ ~processes[i].is_io_bound /\ Queued(i)) ~> (i <= n /\ Terminal(i))

\* C17 witness: a demoted CPU-bound process waits at a lower level while an
\* I/O-bound process that re-arrived at level 0 is dispatched ahead of it.
StarvationPreventionWitness ==
    /\ pc = "run"
    /\ processes[current_proc].is_io_bound
    /\ processes[current_proc].remaining_time < processes[current_proc].burst_time
    /\ \E i \in 1..n :
          /\ ~processes[i].is_io_bound
          /\ Queued(i)
          /\ processes[i].current_queue > 0

\* C18: after an I/O yield at time t the process is in no FIFO and is not
\* dispatched while the clock is < t + 10 (its new arrival_time), and it is
\* re-admitted once the clock reaches t + 10: at every dispatch decision an
\* unfinished process that has yielded and whose arrival_time is <= the clock
\* is back on the ladder.
IoYieldReadmission ==
    /\ \A i \in 1..n : WaitingOnIo(i) => (~Queued(i) /\ ~Running(i))
    /\ pc = "get" =>
          \A i \in 1..n :
             (/\ processes[i].is_io_bound
              /\ processes[i].first_run_time # -1
              /\ processes[i].remaining_time > 0
              /\ processes[i].arrival_time <= current_time) => Queued(i)

\* The run was started on the scenario-2 list: exactly two processes, one
\* I/O-bound with burst 5 and one CPU-bound with burst 100 (these are the only
\* explored inputs with a burst of 100 among two processes; both arrive at 0).
Scenario2Input ==
    /\ n = 2
    /\ \E io, cpu \in 1..2 :
          /\ processes[io].is_io_bound /\ processes[io].burst_time = 5
          /\ ~processes[cpu].is_io_bound /\ processes[cpu].burst_time = 100
          /\ processes[cpu].arrival_time = 0

\* C19 (scenario 2): with one I/O-bound process (burst 5) and one CPU-bound
\* process (burst 100), both arriving at 0, in either list order, when the
\* loop has ended the I/O-bound process is terminal and its response time is
\* strictly lower than the CPU-bound process's.
Scenario2IoBoundCompletesFirst ==
    (Scenario2Input /\ LoopEnded) =>
        \A io, cpu \in 1..2 :
            (processes[io].is_io_bound /\ ~processes[cpu].is_io_bound) =>
                /\ Terminal(io)
                /\ response_time(io) < response_time(cpu)

\* The run was started on the scenario-1 list: three CPU-bound processes
\* arriving at 0 with bursts 24, 3, 3 (none of these fields changes in a run).
Scenario1Input ==
    /\ n = 3
    /\ \A i \in 1..3 : ~processes[i].is_io_bound /\ processes[i].arrival_time = 0
    /\ processes[1].burst_time = 24
    /\ processes[2].burst_time = 3
    /\ processes[3].burst_time = 3

\* C20 (scenario 1): on bursts 24, 3, 3 no boost is triggered; P1 is at level
\* 0 until it has consumed exactly 10 units and at level 1 from then on; P2
\* and P3 first run only after that and are complete before P1 completes;
\* their waiting times are lower than under FCFS order (24 and 27); the run
\* does not abort.
Scenario1ShortJobsOvertake ==
    Scenario1Input =>
        LET used1 == processes[1].burst_time - processes[1].remaining_time
        IN  /\ last_boost_time = 0
            /\ pc # "error"
            /\ used1 \in {0, 10, 24}
            /\ processes[1].current_queue = (IF used1 = 0 THEN 0 ELSE 1)
            /\ \A i \in 2..3 :
                  /\ processes[i].first_run_time # -1 => used1 >= 10
                  /\ Terminal(1) =>
                        /\ Terminal(i)
                        /\ processes[i].completion_time < processes[1].completion_time
            /\ Terminal(2) => processes[2].waiting_time < 24
            /\ Terminal(3) => processes[3].waiting_time < 27

\* C20 witness: the scenario-1 run has ended with all three processes
\* complete.
Scenario1ShortJobsOvertakeWitness ==
    /\ Scenario1Input
    /\ pc = "done"
    /\ \A i \in 1..3 : Terminal(i)

\* ---------------------------------------------------------------------
\* Idle handling and the abort branch (lines 194-216)

\* the unfinished processes whose arrival time lies after the clock
FutureArrivals == {i \in 1..n : processes[i].remaining_time > 0
                                /\ processes[i].arrival_time > current_time}

\* the state in which the loop is entered again right after an idle skip:
\* the last selection returned NULL and the clock was moved forward
AfterIdleSkip == pc = "loop" /\ current_proc = NULL /\ current_time > 0

\* C21: when nothing is runnable and some unfinished process has a later
\* arrival time, the idle branch sets the clock to the smallest such arrival
\* time, which is strictly greater than the clock before; the arrival check
\* of the very next iteration puts every unfinished process with that
\* arrival time on level 0, so the iteration is not repeated at the same clock.
IdleSkipsToNextArrival ==
    [][/\ (pc = "idle" /\ FutureArrivals # {}) =>
            /\ pc' = "loop"
            /\ current_time' > current_time
            /\ \E i \in FutureArrivals : processes[i].arrival_time = current_time'
            /\ \A i \in FutureArrivals : processes[i].arrival_time >= current_time'
       /\ AfterIdleSkip =>
            /\ pc' = "get"
            /\ current_time' = current_time
            /\ \E i \in 1..n : processes[i].arrival_time = current_time
                               /\ processes[i].remaining_time > 0
            /\ \A i \in 1..n : processes[i].arrival_time = current_time
                               /\ processes[i].remaining_time > 0
                               => i \in Range(queues'[0])]_vars

\* C21 witness: after an idle skip the process whose arrival was the earliest
\* is back on level 0 while another one is still waiting for a later arrival.
IdleSkipsToNextArrivalWitness ==
    /\ pc = "get" /\ current_proc = NULL /\ current_time > 0
    /\ queues[0] # <<>>
    /\ FutureArrivals # {}

\* every level of the ladder is empty
AllLevelsEmpty(qs) == \A q \in 0..(NUM_QUEUES - 1) : qs[q] = <<>>

\* C22: when the scheduler finds every level empty, no unfinished process
\* with a later arrival time, and completed < n, the run aborts in that
\* same iteration: the idle branch goes straight to the error exit, and no
\* step of the iteration (arrival check, boost, selection, idle branch)
\* changes the clock or any process record; nothing runs after the abort.
AbortLeavesStateUntouched ==
    [][/\ (pc = "idle" /\ FutureArrivals = {}) =>
            /\ completed < n
            /\ AllLevelsEmpty(queues)
            /\ pc' = "error"
            /\ current_time' = current_time
            /\ processes' = processes
            /\ queues' = queues
            /\ completed' = completed
       /\ (pc \in {"loop", "get", "scan"} /\ pc' \in {"get", "scan", "idle"}
             /\ AllLevelsEmpty(queues')) =>
            /\ current_time' = current_time
            /\ processes' = processes
       /\ pc # "error"]_vars

\* C22 witness: the run has aborted with unfinished processes left.
AbortLeavesStateUntouchedWitness ==
    /\ pc = "error"
    /\ completed < n
    /\ \E i \in 1..n : processes[i].remaining_time > 0
                       /\ processes[i].arrival_time < current_time

\* ---------------------------------------------------------------------
\* Inputs the caller may hand to run_mlfq_simulation without any check
\* (lines 90-107): burst_time <= 0 and repeated ids are not looked at.

UncheckedBurstTimes == {-1, 0, 5}

UncheckedInput ==
    \E k \in 1..MaxN :
      \E id \in [1..k -> 1..k], b \in [1..k -> UncheckedBurstTimes], io \in [1..k -> BOOLEAN] :
         /\ n = k
         /\ processes = [i \in 1..k |-> NewProcess(id[i], 0, b[i], io[i])]

UncheckedInit ==
    /\ UncheckedInput
    /\ queues = EmptyQueues
    /\ current_time = 0
    /\ last_boost_time = 0
    /\ completed = 0
    /\ current_proc = NULL
    /\ pc = "loop"

UncheckedSpec == UncheckedInit /\ [][Next]_vars

\* the input carries a configuration error: a burst_time <= 0 or a repeated id
ConfigurationError ==
    \/ \E i \in 1..n : processes[i].burst_time <= 0
    \/ \E i, j \in 1..n : i # j /\ processes[i].id = processes[j].id

\* C23: an input with burst_time <= 0 or with a repeated id is refused at
\* setup: no scheduling step is taken on it, so the clock stays 0, every
\* level stays empty, nothing is counted as completed and no record changes.
ConfigurationErrorRejected ==
    ConfigurationError =>
        /\ current_time = 0
        /\ queues = EmptyQueues
        /\ completed = 0
        /\ \A i \in 1..n : /\ processes[i].remaining_time = processes[i].burst_time
                           /\ processes[i].first_run_time = -1
                           /\ processes[i].completion_time = 0

\* ---------------------------------------------------------------------
\* Scenario 5: equal CPU-bound processes arriving together

\* print_results: avg_waiting accumulated over the first k processes, before
\* the division by n
RECURSIVE avg_waiting_sum(_)
avg_waiting_sum(k) == IF k = 0 THEN 0 ELSE avg_waiting_sum(k - 1) + processes[k].waiting_time

\* n CPU-bound processes, all arriving at time 0 with the same burst time
Scenario5Input ==
    \A i \in 1..n : /\ ~processes[i].is_io_bound
                    /\ processes[i].arrival_time = 0
                    /\ processes[i].burst_time = processes[1].burst_time

\* C25 (as stated): for n CPU-bound processes arriving at 0 with the same
\* burst B, the final average waiting time avg_waiting_sum / n differs from
\* (n - 1) * B / 2 by at most one level-0 quantum (both sides times 2n).
Scenario5AverageWaitingNearHalf ==
    (Scenario5Input /\ pc = "done") =>
        LET B == processes[1].burst_time
            d == 2 * avg_waiting_sum(n) - n * (n - 1) * B
        IN  d <= 2 * n * time_quantum(0) /\ -d <= 2 * n * time_quantum(0)

\* C25 (amended): for the same inputs the run completes, and the final
\* average waiting time is at least (n - 1) * B / 2 and at most (n - 1) * B;
\* it equals (n - 1) * B / 2 when B does not exceed the level-0 quantum.
Scenario5AverageWaitingBounds ==
    Scenario5Input =>
        /\ pc # "error"
        /\ pc = "done" =>
             LET B == processes[1].burst_time
             IN  /\ n * (n - 1) * B <= 2 * avg_waiting_sum(n)
                 /\ 2 * avg_waiting_sum(n) <= 2 * n * (n - 1) * B
                 /\ B <= time_quantum(0) => 2 * avg_waiting_sum(n) = n * (n - 1) * B

\* C25 witness: a finished Scenario 5 run with bursts longer than the level-0
\* quantum whose average waiting time is more than one quantum above
\* (n - 1) * B / 2.
Scenario5AverageWaitingWitness ==
    /\ Scenario5Input /\ pc = "done" /\ n >= 2
    /\ processes[1].burst_time > time_quantum(0)
    /\ 2 * avg_waiting_sum(n) - n * (n - 1) * processes[1].burst_time
         > 2 * n * time_quantum(0)

\* ---------------------------------------------------------------------
\* The dispatch step (lines 128-192)

\* the smaller of two integers
Min(a, b) == IF a < b THEN a ELSE b

\* C26: a dispatch of process P at level L with quantum Q runs P for
\* min(remaining, Q / 5) if P is I/O-bound and for min(remaining, Q - usage)
\* otherwise. That amount is at least 1; the step adds it to the clock,
\* subtracts it from the remaining time, and adds it to the quantum-usage
\* counter, which is then left as it is on completion and reset to 0 when
\* the process yields or is queued again.
DispatchAmount ==
    [][pc = "run" =>
         LET i == current_proc
             p == processes[i]
             Q == time_quantum(p.current_queue)
             amount == IF p.is_io_bound
                       THEN Min(p.remaining_time, Q \div 5)
                       ELSE Min(p.remaining_time, Q - p.time_in_current_quantum)
         IN  /\ p.burst_time > 0
             /\ amount >= 1
             /\ current_time' = current_time + amount
             /\ processes'[i].remaining_time = p.remaining_time - amount
             /\ processes'[i].remaining_time >= 0
             /\ processes'[i].time_in_current_quantum =
                  IF processes'[i].remaining_time = 0
                  THEN p.time_in_current_quantum + amount
                  ELSE 0]_vars

\* C26 witness: an I/O-bound process is dispatched with less remaining time
\* than a fifth of the quantum, after a CPU-bound one was cut off by its
\* remaining time as well.
DispatchAmountWitness ==
    /\ pc = "run"
    /\ processes[current_proc].is_io_bound
    /\ processes[current_proc].remaining_time
         < time_quantum(processes[current_proc].current_queue) \div 5
    /\ \E j \in 1..n : /\ ~processes[j].is_io_bound
                       /\ Terminal(j)
                       /\ processes[j].time_in_current_quantum
                            < time_quantum(processes[j].current_queue)

\* process i is the last entry of level q and on no other level
LastOnLevelOnly(i, q) ==
    /\ queues[q] # <<>>
    /\ queues[q][Len(queues[q])] = i
    /\ Occurrences(i, 0) = 1

\* C27: every dispatch has exactly one outcome, chosen in the order
\* completion, I/O yield, full-quantum demotion, same-level re-queue: a
\* process whose remaining time reaches 0 is completed (counted, stamped
\* with the clock, on no level, arrival time kept), also when that happens
\* exactly as its quantum is used up; otherwise an I/O-bound process that
\* ran less than the quantum yields (on no level, arrival time set to the
\* clock plus the I/O time); otherwise a process that used up its quantum
\* goes to the tail of the next lower level (the lowest stays); otherwise
\* it goes to the tail of its own level.
ExactlyOneOutcome ==
    [][pc = "run" =>
         LET i == current_proc
             p == processes[i]
             q == p.current_queue
             Q == time_quantum(q)
             ran == current_time' - current_time
             used == p.time_in_current_quantum + ran
             after == processes'[i]
         IN  IF after.remaining_time = 0
             THEN /\ completed' = completed + 1
                  /\ after.completion_time = current_time'
                  /\ after.arrival_time = p.arrival_time
                  /\ after.current_queue = q
                  /\ queues' = queues
             ELSE /\ completed' = completed
                  /\ after.completion_time = p.completion_time
                  /\ IF p.is_io_bound /\ ran < Q
                     THEN /\ after.arrival_time = current_time' + io_time
                          /\ after.current_queue = q
                          /\ queues' = queues
                     ELSE /\ after.arrival_time = p.arrival_time
                          /\ after.current_queue = IF used >= Q THEN NextQueue(q) ELSE q
                          /\ \E level \in 0..(NUM_QUEUES - 1) :
                                /\ level = after.current_queue
                                /\ LastOnLevelOnly(i, level)']_vars

\* C27 witness: a CPU-bound process has just completed in a dispatch that
\* used up its whole quantum, and it is on no level.
ExactlyOneOutcomeWitness ==
    /\ pc = "loop"
    /\ current_proc # NULL
    /\ ~processes[current_proc].is_io_bound
    /\ Terminal(current_proc)
    /\ processes[current_proc].time_in_current_quantum
         = time_quantum(processes[current_proc].current_queue)
    /\ processes[current_proc].completion_time = current_time
    /\ ~Queued(current_proc)

\* C28: once the remaining time of a process is 0 the process is terminal
\* for good: it is on no level and is not the selected process, in that
\* state and in every later one, and its completion time, turnaround time
\* and waiting time never change again.
TerminalNeverScheduledAgain ==
    [][\A i \in 1..n :
         Terminal(i) =>
            /\ ~Queued(i) /\ ~Running(i)
            /\ Terminal(i)'
            /\ ~Queued(i)' /\ ~Running(i)'
            /\ processes'[i].completion_time = processes[i].completion_time
            /\ processes'[i].turnaround_time = processes[i].turnaround_time
            /\ processes'[i].waiting_time = processes[i].waiting_time]_vars

\* C28 witness: another process is dispatched at a clock value later than
\* the completion time of a terminal process.
TerminalNeverScheduledAgainWitness ==
    /\ pc = "run"
    /\ \E i \in 1..n : /\ Terminal(i)
                       /\ i # current_proc
                       /\ processes[i].completion_time < current_time

\* ---------------------------------------------------------------------
\* Sentinel values of first_run_time and completion_time

\* process i has not been dispatched yet: it still has its whole burst
NeverDispatched(i) == processes[i].remaining_time = processes[i].burst_time

\* C29 (as stated): first_run_time is -1 until the first dispatch of the
\* process, is set to the clock at the start of that dispatch and never
\* changes afterwards; completion_time is -1 in every state in which the
\* process is not yet terminal.
CompletionTimeMinusOneUntilTerminal ==
    [][\A i \in 1..n :
         /\ processes[i].first_run_time = -1 <=> NeverDispatched(i)
         /\ (Running(i) /\ processes[i].first_run_time = -1)
               => processes'[i].first_run_time = current_time
         /\ (~Running(i) \/ processes[i].first_run_time # -1)
               => processes'[i].first_run_time = processes[i].first_run_time
         /\ ~Terminal(i) => processes[i].completion_time = -1
         /\ ~Terminal(i)' => processes'[i].completion_time = -1]_vars

\* C29 (amended): the same for first_run_time; completion_time is 0, the
\* value of the caller's initializer, in every state in which the process
\* is not yet terminal.
CompletionTimeZeroUntilTerminal ==
    [][\A i \in 1..n :
         /\ processes[i].first_run_time = -1 <=> NeverDispatched(i)
         /\ (Running(i) /\ processes[i].first_run_time = -1)
               => processes'[i].first_run_time = current_time
         /\ (~Running(i) \/ processes[i].first_run_time # -1)
               => processes'[i].first_run_time = processes[i].first_run_time
         /\ ~Terminal(i) => processes[i].completion_time = 0
         /\ ~Terminal(i)' => processes'[i].completion_time = 0]_vars

\* C29 witness: a process that was first dispatched at an earlier clock
\* value is dispatched again, not yet terminal, with completion_time 0.
CompletionTimeZeroUntilTerminalWitness ==
    /\ pc = "run"
    /\ processes[current_proc].first_run_time # -1
    /\ processes[current_proc].first_run_time < current_time
    /\ processes[current_proc].completion_time = 0
    /\ \E j \in 1..n : Terminal(j) /\ processes[j].completion_time > 0

\* ---------------------------------------------------------------------
\* Progress of the clock

\* C30: the clock strictly increases on every loop iteration that does not
\* abort: the arrival check, the boost and the selection leave it alone and
\* the dispatch or the idle skip that ends the iteration moves it forward,
\* so two consecutive dispatch decisions never see the same clock value; and
\* a process whose arrival time equals the clock at the head of the loop has
\* not been admitted for that arrival time before: it is on no level, not
\* terminal, and, unless it yielded for I/O, was never dispatched.
ClockStrictlyIncreasesPerIteration ==
    [][/\ pc \in {"loop", "get", "scan"} => current_time' = current_time
       /\ (pc \in {"run", "idle"} /\ pc' = "loop") => current_time' > current_time
       /\ pc = "loop" =>
            \A i \in 1..n :
               processes[i].arrival_time = current_time =>
                  /\ ~Queued(i)
                  /\ ~Terminal(i)
                  /\ ~processes[i].is_io_bound => NeverDispatched(i)]_vars

\* C30 witness: at the head of an iteration that follows a dispatch, an
\* I/O-bound process that ran before is due for admission at the current
\* clock value.
ClockStrictlyIncreasesPerIterationWitness ==
    /\ pc = "loop"
    /\ current_proc # NULL
    /\ \E i \in 1..n : /\ processes[i].is_io_bound
                       /\ ~NeverDispatched(i)
                       /\ processes[i].arrival_time = current_time

\* ---------------------------------------------------------------------
\* Levels and their quanta

\* C31: the current_queue of every process is a level index
\* 0..NUM_QUEUES-1; a process held by the FIFO of level k has
\* current_queue = k; the process selected from level k is dispatched with
\* the quantum of level k, 10 * 2^k (10, 20, 40): it never runs longer, and
\* a CPU-bound process with at least that much remaining runs exactly that long.
LevelAndQuantumConsistent ==
    [][/\ \A i \in 1..n :
            /\ processes[i].current_queue \in 0..(NUM_QUEUES - 1)
            /\ \A k \in 0..(NUM_QUEUES - 1) :
                  i \in Range(queues[k]) => processes[i].current_queue = k
       /\ pc = "scan" =>
            \A k \in 0..(NUM_QUEUES - 1) :
               (queues[k] # <<>> /\ queues'[k] # queues[k])
                  => processes[current_proc'].current_queue = k
       /\ pc = "run" =>
            LET p == processes[current_proc]
                quantum == 10 * 2 ^ p.current_queue
                ran == current_time' - current_time
            IN  /\ quantum \in {10, 20, 40}
                /\ quantum = time_quantum(p.current_queue)
                /\ ran <= quantum
                /\ (~p.is_io_bound /\ p.remaining_time >= quantum) => ran = quantum
                /\ p.is_io_bound => ran <= quantum \div 5]_vars

\* C31 witness: a CPU-bound process selected from the lowest level is
\* dispatched with the quantum 40 and enough remaining time to use it up,
\* after another process has run as well.
LevelAndQuantumConsistentWitness ==
    /\ pc = "run"
    /\ processes[current_proc].current_queue = NUM_QUEUES - 1
    /\ ~processes[current_proc].is_io_bound
    /\ processes[current_proc].remaining_time >= 40
    /\ \E j \in 1..n : j # current_proc /\ processes[j].first_run_time # -1

\* ---------------------------------------------------------------------
\* Termination of the scheduler loop

\* remaining burst summed over the first k processes
RECURSIVE total_remaining(_)
total_remaining(k) ==
    IF k = 0 THEN 0 ELSE total_remaining(k - 1) + processes[k].remaining_time

\* C32: for inputs whose bursts are all positive the scheduler loop ends,
\* with completed = n or through the abort branch: every dispatch lowers
\* the total remaining burst by at least 1, every idle skip moves the clock
\* to the arrival time of an unfinished process, and the selection that
\* follows an idle skip finds a process to dispatch.
LoopTerminates ==
    /\ [][/\ \A i \in 1..n : processes[i].burst_time > 0
          /\ pc = "run" => /\ total_remaining(n)' <= total_remaining(n) - 1
                           /\ total_remaining(n)' >= 0
          /\ pc # "run" => total_remaining(n)' = total_remaining(n)
          /\ (pc = "idle" /\ pc' = "loop") =>
                \E i \in 1..n : /\ processes[i].remaining_time > 0
                                /\ processes[i].arrival_time = current_time'
          /\ (pc = "scan" /\ current_proc = NULL /\ current_time > 0) => pc' = "run"]_vars
    /\ <>LoopEnded

\* C32 witness: the loop has ended after at least one idle skip and one
\* dispatch that followed it.
LoopTerminatesWitness ==
    /\ LoopEnded
    /\ \E i \in 1..n : /\ processes[i].is_io_bound
                       /\ processes[i].first_run_time # -1
                       /\ processes[i].arrival_time > io_time

\* ---------------------------------------------------------------------
\* Unreachable last branch of the outcome chain (lines 188-192)

\* C33: a dispatched process has quantum usage 0, so a CPU-bound process
\* runs for min(remaining, whole quantum) and its dispatch ends in
\* completion or in demotion; no dispatch ends in the last branch of the
\* chain (not completed, no I/O yield, quantum not used up).
SameLevelBranchNeverTaken ==
    [][pc = "run" =>
         LET p == processes[current_proc]
             q == p.current_queue
             Q == time_quantum(q)
             ran == current_time' - current_time
             after == processes'[current_proc]
         IN  /\ p.time_in_current_quantum = 0
             /\ ~p.is_io_bound =>
                  /\ ran = Min(p.remaining_time, Q)
                  /\ \/ after.remaining_time = 0 /\ completed' = completed + 1
                     \/ /\ after.remaining_time > 0
                        /\ ran = Q
                        /\ after.current_queue = NextQueue(q)
                        /\ current_proc \in Range(queues'[NextQueue(q)])
             /\ after.remaining_time > 0 =>
                  \/ p.is_io_bound /\ ran < Q
                  \/ p.time_in_current_quantum + ran >= Q]_vars

\* C33 witness: a CPU-bound process that was demoted before is dispatched
\* again with more remaining time than the quantum of its level.
SameLevelBranchNeverTakenWitness ==
    /\ pc = "run"
    /\ ~processes[current_proc].is_io_bound
    /\ processes[current_proc].current_queue >= 1
    /\ processes[current_proc].time_in_current_quantum = 0
    /\ processes[current_proc].remaining_time
         > time_quantum(processes[current_proc].current_queue)

\* ---------------------------------------------------------------------
\* The completion counter

\* the processes whose remaining burst is 0
TerminalProcesses == {i \in 1..n : Terminal(i)}

\* C34: completed is the number of processes with remaining_time = 0 and
\* lies in 0..n; it goes up by one exactly in the dispatch in which the
\* remaining burst of the dispatched process reaches 0, and never otherwise.
CompletedCountsTerminal ==
    [][/\ completed = Cardinality(TerminalProcesses)
       /\ completed' = Cardinality(TerminalProcesses')
       /\ completed \in 0..n
       /\ completed' \in 0..n
       /\ IF pc = "run" /\ processes'[current_proc].remaining_time = 0
          THEN /\ processes[current_proc].remaining_time > 0
               /\ completed' = completed + 1
               /\ TerminalProcesses' = TerminalProcesses \cup {current_proc}
          ELSE /\ completed' = completed
               /\ TerminalProcesses' = TerminalProcesses]_vars

\* C34 witness: one process has been counted and another one, not yet
\* terminal, is dispatched.
CompletedCountsTerminalWitness ==
    /\ pc = "run"
    /\ completed >= 1
    /\ completed < n
    /\ ~Terminal(current_proc)
    /\ \E i \in 1..n : i # current_proc /\ Terminal(i) /\ processes[i].completion_time > 0

\* ---------------------------------------------------------------------
\* Single CPU accounting

\* CPU time handed out so far: burst_time - remaining_time summed over the
\* first k processes
RECURSIVE total_executed(_)
total_executed(k) ==
    IF k = 0 THEN 0
    ELSE total_executed(k - 1) + (processes[k].burst_time - processes[k].remaining_time)

\* the part of the clock that no process was charged for
idle_time == current_time - total_executed(n)

\* C35: the clock is never behind the CPU time handed out to all processes
\* together. The two start equal; a dispatch adds the same amount to both,
\* so they stay equal as long as no idle skip has occurred, and every idle
\* skip puts the clock strictly further ahead. At most one process is
\* running at a time, and the running process is on no level.
SingleCpuAccounting ==
    [][/\ idle_time >= 0
       /\ idle_time' >= 0
       /\ (pc = "loop" /\ current_time = 0) => idle_time = 0
       /\ IF pc = "idle" /\ pc' = "loop"
          THEN idle_time' > idle_time
          ELSE idle_time' = idle_time
       /\ Cardinality({i \in 1..n : Running(i)}) <= 1
       /\ \A i \in 1..n : Running(i) => ~Queued(i) /\ ~Terminal(i)]_vars

\* C35 witness: a process is dispatched after an idle skip, the clock being
\* ahead of the CPU time handed out, while another one is queued.
SingleCpuAccountingWitness ==
    /\ pc = "run"
    /\ idle_time > 0
    /\ total_executed(n) > 0
    /\ \E j \in 1..n : Queued(j)

\* ---------------------------------------------------------------------
\* Spacing of the boosts

\* C36: last_boost_time is never ahead of the clock, in particular at
\* every dispatch decision; it changes only in the boost step, which sets it
\* to the current clock, and then the clock is at least boost_interval past
\* the previous boost, so two consecutive boosts are at least
\* boost_interval apart.
BoostsSpacedByInterval ==
    [][/\ last_boost_time <= current_time
       /\ last_boost_time' <= current_time'
       /\ pc = "scan" => last_boost_time <= current_time
       /\ pc # "get" => last_boost_time' = last_boost_time
       /\ pc = "get" =>
            IF current_time - last_boost_time >= boost_interval
            THEN last_boost_time' = current_time
            ELSE last_boost_time' = last_boost_time
       /\ last_boost_time' # last_boost_time =>
            last_boost_time' - last_boost_time >= boost_interval]_vars

\* C36 witness: a dispatch decision after the second boost of a run.
BoostsSpacedByIntervalWitness ==
    /\ pc = "scan"
    /\ last_boost_time >= 2 * boost_interval
    /\ last_boost_time < current_time

\* ---------------------------------------------------------------------
\* Capacity of the levels

\* number of entries on levels q..NUM_QUEUES-1
RECURSIVE count_from(_, _)
count_from(qs, q) ==
    IF q >= NUM_QUEUES THEN 0 ELSE Len(qs[q]) + count_from(qs, q + 1)

\* the process table is full
FullLoadInput == n = MAX_PROCESSES

\* C37: with n <= MAX_PROCESSES every level holds between 0 and
\* MAX_PROCESSES entries, and no enqueue is dropped by the capacity test:
\* the arrival check adds every process whose arrival time is the clock to
\* level 0, a boost moves every entry of the lower levels to level 0 and
\* leaves those levels empty without losing an entry, and a demotion puts
\* the process on its new level; each time there was room for it.
NoEnqueueDropped ==
    [][/\ n <= MAX_PROCESSES
       /\ \A q \in 0..(NUM_QUEUES - 1) : Len(queues'[q]) \in 0..MAX_PROCESSES
       /\ (pc = "loop" /\ completed < n) =>
            LET arrived == {i \in 1..n : processes[i].arrival_time = current_time}
            IN  /\ Len(queues[0]) + Cardinality(arrived) <= MAX_PROCESSES
                /\ Len(queues'[0]) = Len(queues[0]) + Cardinality(arrived)
                /\ arrived \subseteq Range(queues'[0])
                /\ \A q \in 1..(NUM_QUEUES - 1) : queues'[q] = queues[q]
       /\ (pc = "get" /\ current_time - last_boost_time >= boost_interval) =>
            /\ count_from(queues, 0) <= MAX_PROCESSES
            /\ Len(queues'[0]) = count_from(queues, 0)
            /\ \A q \in 0..(NUM_QUEUES - 1) : Range(queues[q]) \subseteq Range(queues'[0])
            /\ \A q \in 1..(NUM_QUEUES - 1) : queues'[q] = <<>>
       /\ (pc = "run" /\ processes'[current_proc].remaining_time > 0
             /\ ~processes[current_proc].is_io_bound) =>
            LET level == NextQueue(processes[current_proc].current_queue)
            IN  /\ Len(queues[level]) < MAX_PROCESSES
                /\ queues'[level] = Append(queues[level], current_proc)
                /\ count_from(queues', 0) = count_from(queues, 0) + 1]_vars

\* C37 witness: with a full process table all MAX_PROCESSES processes are on
\* level 0 at once after a boost moved some of them back from level 1.
NoEnqueueDroppedWitness ==
    /\ FullLoadInput
    /\ pc = "scan"
    /\ Len(queues[0]) = MAX_PROCESSES
    /\ last_boost_time >= boost_interval
    /\ \E i \in 1..n : processes[i].first_run_time # -1

====
